---------------------------- MODULE Spec2Model ----------------------------
(***************************************************************************)
(* Conversation store and stream parsers of the chat front end.            *)
(*                                                                         *)
(*   SpecParser  the stream parsers: the line-prefixed parser              *)
(*               (context/streaming-service.ts), the SSE/JSON parser       *)
(*               (store/streaming-service.ts) and the stream loop written  *)
(*               inline in the legacy provider's sendMessage.              *)
(*   Spec        the conversation store in its two current variants: the   *)
(*               React context provider over chatReducer, and the zustand  *)
(*               store.                                                    *)
(*                                                                         *)
(* Text is a sequence of one-character strings.                            *)
(***************************************************************************)
EXTENDS Naturals, Sequences, FiniteSets, TLC

\* ------------------------------------------------------------------ bounds
\* lines of a logical stream
MaxLines == 2
\* read() results that carry bytes
MaxChunks == 2
\* asynchronous store actions started in one session
MaxOps == 2
\* threads the server ever holds
MaxThreads == 3
\* readings of the clock (Date.now) in one session
MaxClock == 2
\* text fragments of one chat stream
MaxDeltas == 2
\* concurrently pending asynchronous calls
MaxCalls == 2
\* synchronous store actions run in one session
MaxEdits == 1

\* --------------------------------------------------------------- characters
QUOTE == "\""
BSLASH == "\\"
NL == "\n"
SP == " "

Null == "null"
Undefined == "undefined"

\* --------------------------------------------------------------- text helpers
\* String.prototype.trim: the characters it strips
IsSpace(c) == c \in {SP, NL, "\t", "\r"}

RECURSIVE TrimStart(_)
TrimStart(s) ==
  IF s = <<>> THEN <<>>
  ELSE IF IsSpace(Head(s)) THEN TrimStart(Tail(s)) ELSE s

RECURSIVE TrimEnd(_)
TrimEnd(s) ==
  IF s = <<>> THEN <<>>
  ELSE IF IsSpace(s[Len(s)]) THEN TrimEnd(SubSeq(s, 1, Len(s) - 1)) ELSE s

Trim(s) == TrimEnd(TrimStart(s))

StartsWith(s, p) == Len(s) >= Len(p) /\ SubSeq(s, 1, Len(p)) = p

\* chunk.split('\n'): the pieces between newlines, empty pieces kept
RECURSIVE SplitFrom(_, _, _)
SplitFrom(s, i, cur) ==
  IF i > Len(s) THEN <<cur>>
  ELSE IF s[i] = NL THEN <<cur>> \o SplitFrom(s, i + 1, <<>>)
  ELSE SplitFrom(s, i + 1, Append(cur, s[i]))

SplitLines(s) == SplitFrom(s, 1, <<>>)

\* s.replace(/<c1><c2>/g, r): every two-character occurrence, left to right
RECURSIVE ReplaceAll2(_, _, _, _)
ReplaceAll2(s, c1, c2, r) ==
  IF Len(s) < 2 THEN s
  ELSE IF s[1] = c1 /\ s[2] = c2
       THEN <<r>> \o ReplaceAll2(SubSeq(s, 3, Len(s)), c1, c2, r)
       ELSE <<s[1]>> \o ReplaceAll2(Tail(s), c1, c2, r)

\* the three replace() passes, in the order the code applies them
Unescape(s) ==
  ReplaceAll2(ReplaceAll2(ReplaceAll2(s, BSLASH, "n", NL),
                          BSLASH, QUOTE, QUOTE),
              BSLASH, BSLASH, BSLASH)

\* line.match(/^0:"(.*)"/): greedy, so the capture ends at the line's last quote
Pfx0 == <<"0", ":", QUOTE>>
LastQuote(line) ==
  LET qs == {j \in 4..Len(line) : line[j] = QUOTE}
  IN IF qs = {} THEN 0 ELSE CHOOSE j \in qs : \A k \in qs : k <= j
MatchText(line) == SubSeq(line, 4, LastQuote(line) - 1)

RECURSIVE Concat(_)
Concat(ss) == IF ss = <<>> THEN <<>> ELSE Head(ss) \o Concat(Tail(ss))


\* ------------------------------------------------------------------ state
VARIABLES
  \* --- stream parser (one processStreamingResponse invocation)
  pvariant,          \* which parser runs
  stream,            \* the logical lines the server sends
  throwAt,           \* the onUpdate call that throws (0: none does)
  pos,               \* bytes of the stream already handed out by read()
  nchunks,           \* read() results that carried bytes
  streamingContent,  \* let streamingContent
  aiMessageId,       \* let aiMessageId
  updates,           \* the arguments of the onUpdate calls, in order
  metaCalls,         \* onBeforeUpdate calls
  completeCalls,     \* onComplete calls
  errorCalls,        \* onError calls
  released,          \* reader.releaseLock() calls
  pstatus,           \* "idle", "reading", "returned", "threw"
  result,            \* the value the parser returned
  endSeen,           \* an e: / d: line was reached
  cutInsideLine,     \* some read() result ended inside a line
  exitLog,           \* what the parser did on its way out, in order
  \* --- conversation store
  variant,           \* "context" (ChatProvider + chatReducer) or "zustand"
  threads,
  messages,
  currentThreadId,
  currentThread,
  isLoading,
  error,
  isLoadingMessages,
  isLoadingThreads,
  clock,             \* Date.now()
  server,            \* the persistence backend behind the API gateway
  calls,             \* the pending and settled asynchronous invocations
  ops,               \* asynchronous actions started so far
  edits,             \* the synchronous actions run so far, in order
  \* --- API gateway
  api,               \* one getThreadById invocation
  \* --- axios client
  axios              \* one request through apiClient and what it sets off

parserVars == <<pvariant, stream, throwAt, pos, nchunks, streamingContent,
                aiMessageId, updates, metaCalls, completeCalls, errorCalls,
                released, pstatus, result, endSeen, cutInsideLine,
                exitLog>>
storeState == <<threads, messages, currentThreadId, currentThread, isLoading,
                error, isLoadingMessages, isLoadingThreads>>
storeVars == <<variant, threads, messages, currentThreadId, currentThread,
               isLoading, error, isLoadingMessages, isLoadingThreads, clock,
               server, calls, ops, edits>>
vars == <<parserVars, storeVars, api, axios>>

\* ------------------------------------------------------- the stream's lines
\* line-prefixed protocol
LnTextA == [bytes |-> <<"0", ":", QUOTE, "a", QUOTE>>, kind |-> "text", frag |-> <<"a">>]
LnTextSp == [bytes |-> <<"0", ":", QUOTE, SP, QUOTE>>, kind |-> "text", frag |-> <<SP>>]
LnTextNl == [bytes |-> <<"0", ":", QUOTE, BSLASH, "n", QUOTE>>, kind |-> "text", frag |-> <<NL>>]
\* 0:"hello\nworld" (an escaped newline) and 0:"hello\\nworld" (an escaped
\* backslash, then the letter n), with the text each escaping stands for
Hello == <<"h", "e", "l", "l", "o">>
World == <<"w", "o", "r", "l", "d">>
LnHelloNl ==
  [bytes |-> <<"0", ":", QUOTE>> \o Hello \o <<BSLASH, "n">> \o World \o <<QUOTE>>,
   kind |-> "text", frag |-> Hello \o <<NL>> \o World]
LnHelloBsN ==
  [bytes |-> <<"0", ":", QUOTE>> \o Hello \o <<BSLASH, BSLASH, "n">> \o World
             \o <<QUOTE>>,
   kind |-> "text", frag |-> Hello \o <<BSLASH, "n">> \o World]
LnEnd == [bytes |-> <<"e", ":">>, kind |-> "end", frag |-> <<>>]
LnDone == [bytes |-> <<"d", ":">>, kind |-> "end", frag |-> <<>>]
LnBlank == [bytes |-> <<SP>>, kind |-> "blank", frag |-> <<>>]
\* SSE-style JSON protocol
DataPfx == <<"d", "a", "t", "a", ":", SP>>
JsonChkA == <<"{", QUOTE, "c", "h", "k", QUOTE, ":", QUOTE, "a", QUOTE, "}">>
JsonChkSp == <<"{", QUOTE, "c", "h", "k", QUOTE, ":", QUOTE, SP, QUOTE, "}">>
JsonEofs == <<"{", QUOTE, "e", "o", "f", "s", QUOTE, ":", "t", "r", "u", "e", "}">>
JsonMeta == <<"{", QUOTE, "m", "e", "t", "a", "d", "a", "t", "a", QUOTE, ":", "{", QUOTE, "a", "i", "_", "m", "e", "s", "s", "a", "g", "e", "_", "i", "d", QUOTE, ":", QUOTE, "m", QUOTE, "}", "}">>
JsonBad == <<"{", QUOTE, "c", "h", "k">>
SseChkA == [bytes |-> DataPfx \o JsonChkA, kind |-> "text", frag |-> <<"a">>]
SseChkSp == [bytes |-> DataPfx \o JsonChkSp, kind |-> "text", frag |-> <<SP>>]
SseEofs == [bytes |-> DataPfx \o JsonEofs, kind |-> "end", frag |-> <<>>]
SseMeta == [bytes |-> DataPfx \o JsonMeta, kind |-> "meta", frag |-> <<>>]
SseBad == [bytes |-> DataPfx \o JsonBad, kind |-> "bad", frag |-> <<>>]
\* data: {"chk":"ab"} and data: {"chk":"cd"}
JsonChk(text) ==
  <<"{", QUOTE, "c", "h", "k", QUOTE, ":", QUOTE>> \o text \o <<QUOTE, "}">>
SseChk(text) == [bytes |-> DataPfx \o JsonChk(text), kind |-> "text", frag |-> text]

PVariants == {"line", "sse", "inline"}
LineSet(v) ==
  IF v = "sse" THEN {SseChkA, SseChkSp, SseEofs, SseMeta, SseBad}
  ELSE {LnTextA, LnTextSp, LnTextNl, LnHelloNl, LnHelloBsN, LnEnd, LnDone, LnBlank}
\* one longer response: two chunks, the end of the stream, and a late chunk
LongStreams(v) ==
  IF v = "sse"
  THEN {<<SseChk(<<"a", "b">>), SseChk(<<"c", "d">>), SseEofs>>,
        <<SseChk(<<"a", "b">>), SseChk(<<"c", "d">>), SseEofs, SseChkA>>}
  ELSE {}
Streams(v) == UNION {[1..n -> LineSet(v)] : n \in 1..MaxLines} \cup LongStreams(v)

\* the bytes on the wire: every line followed by a newline
RECURSIVE Wire(_)
Wire(ls) == IF ls = <<>> THEN <<>> ELSE Head(ls).bytes \o <<NL>> \o Wire(Tail(ls))
Content == Wire(stream)

\* JSON.parse of a data: payload. The payloads the server sends are the only
\* complete JSON texts over the stream's bytes; any other text throws.
NoData == [valid |-> FALSE, metadata |-> Null, chk |-> <<>>, eofs |-> FALSE]
JSONParse_Lenient(s) ==
  IF s = JsonEofs THEN [NoData EXCEPT !.valid = TRUE, !.eofs = TRUE]
  ELSE [NoData EXCEPT !.valid = TRUE, !.chk = <<"a">>]
JSONParse(s) ==
  IF s = JsonChkA THEN [NoData EXCEPT !.valid = TRUE, !.chk = <<"a">>]
  ELSE IF s = JsonChk(<<"a", "b">>) THEN [NoData EXCEPT !.valid = TRUE, !.chk = <<"a", "b">>]
  ELSE IF s = JsonChk(<<"c", "d">>) THEN [NoData EXCEPT !.valid = TRUE, !.chk = <<"c", "d">>]
  ELSE IF s = JsonChkSp THEN [NoData EXCEPT !.valid = TRUE, !.chk = <<SP>>]
  ELSE IF s = JsonEofs THEN [NoData EXCEPT !.valid = TRUE, !.eofs = TRUE]
  ELSE IF s = JsonMeta THEN [NoData EXCEPT !.valid = TRUE, !.metadata = "m"]
  ELSE NoData

\* ------------------------------------------------------ the stream parsers
\* The parser's locals while it works through the lines of one chunk.
PState == [sc |-> streamingContent, id |-> aiMessageId, ups |-> updates,
           meta |-> metaCalls, completes |-> completeCalls,
           status |-> "reading", ended |-> endSeen]

\* for (const line of lines) of the line-prefixed parser
RECURSIVE LineLoop(_, _, _)
LineLoop(lines, i, st) ==
  IF i > Len(lines) THEN st
  ELSE LET line == lines[i] IN
    IF Trim(line) = <<>> THEN LineLoop(lines, i + 1, st)
    ELSE IF StartsWith(line, Pfx0) THEN
      IF LastQuote(line) # 0 THEN
        LET sc2 == st.sc \o Unescape(MatchText(line))
            st2 == [st EXCEPT !.sc = sc2, !.ups = Append(@, sc2)]
        IN IF Len(st2.ups) = throwAt
           THEN [st2 EXCEPT !.status = "threw"]
           ELSE LineLoop(lines, i + 1, st2)
      ELSE LineLoop(lines, i + 1, st)
    ELSE IF StartsWith(line, <<"e", ":">>) \/ StartsWith(line, <<"d", ":">>)
         THEN [st EXCEPT !.ended = TRUE]
         ELSE LineLoop(lines, i + 1, st)

\* if (data.eofs === true): the stream has ended
StreamEnded_Never(data) == FALSE
StreamEnded(data) == data.eofs

\* for (const line of lines) of the SSE parser
RECURSIVE SseLoop(_, _, _)
SseLoop(lines, i, st) ==
  IF i > Len(lines) THEN st
  ELSE LET trimmedLine == Trim(lines[i]) IN
    IF trimmedLine = <<>> THEN SseLoop(lines, i + 1, st)
    ELSE IF StartsWith(trimmedLine, DataPfx) THEN
      LET data == JSONParse(SubSeq(trimmedLine, 7, Len(trimmedLine))) IN
      IF ~data.valid THEN SseLoop(lines, i + 1, st)
      ELSE IF data.metadata # Null
      THEN SseLoop(lines, i + 1,
                   [st EXCEPT !.id = data.metadata, !.meta = @ + 1])
      ELSE
        LET st2 == IF data.chk # <<>>
                   THEN [st EXCEPT !.sc = @ \o data.chk,
                                   !.ups = Append(@, st.sc \o data.chk)]
                   ELSE st
            thrown == data.chk # <<>> /\ Len(st2.ups) = throwAt
        IN IF thrown THEN SseLoop(lines, i + 1, st2)
           ELSE IF StreamEnded(data)
           THEN [st2 EXCEPT !.completes = @ + 1, !.status = "returned"]
           ELSE SseLoop(lines, i + 1, st2)
    ELSE SseLoop(lines, i + 1, st)

ProcessChunk(chunk) ==
  IF pvariant = "sse" THEN SseLoop(SplitLines(chunk), 1, PState)
  ELSE LineLoop(SplitLines(chunk), 1, PState)

\* what the parser hands back
ReturnValue(sc, id) ==
  [content |-> Trim(sc), messageId |-> IF pvariant = "sse" THEN id ELSE Undefined]

\* the finally block: processStreamingResponse releases the reader; the inline
\* loop of the legacy sendMessage has no such block
ReleasesOnExit == pvariant \in {"line", "sse"}
Finally(status) ==
  IF status # "reading" /\ ReleasesOnExit THEN released + 1 ELSE released

\* the errors a run can end with
ReadFailed == "ReadFailed"
CallbackThrew == "CallbackThrew"

\* catch (error) of the SSE parser: onError, then the error is thrown again;
\* the other loops have no catch
CatchCalls_Silent(e) == <<>>
CatchCalls(e) == IF pvariant = "sse" THEN << <<"onError", e>> >> ELSE <<>>

\* the calls made between the end of the loop and the settled promise
ExitCalls(status, e) ==
  IF status = "reading" THEN <<>>
  ELSE (IF status = "threw" THEN CatchCalls(e)
        ELSE IF pvariant = "sse" THEN << <<"onComplete">> >> ELSE <<>>)
       \o (IF ReleasesOnExit THEN << <<"releaseLock">> >> ELSE <<>>)
       \o (IF status = "threw" THEN << <<"throw", e>> >> ELSE << <<"return">> >>)

\* reader.read() resolves with the next k bytes, and the chunk is processed
ReadChunk ==
  /\ pstatus = "reading"
  /\ pos < Len(Content)
  /\ nchunks < MaxChunks
  /\ \E k \in 1..(Len(Content) - pos) :
       /\ (nchunks = MaxChunks - 1) => (k = Len(Content) - pos)
       /\ LET st == ProcessChunk(SubSeq(Content, pos + 1, pos + k)) IN
          /\ pos' = pos + k
          /\ nchunks' = nchunks + 1
          /\ streamingContent' = st.sc
          /\ aiMessageId' = st.id
          /\ updates' = st.ups
          /\ metaCalls' = st.meta
          /\ completeCalls' = st.completes
          /\ endSeen' = st.ended
          /\ cutInsideLine' = (cutInsideLine \/ Content[pos + k] # NL)
          /\ pstatus' = st.status
          /\ released' = Finally(st.status)
          /\ exitLog' = ExitCalls(st.status, CallbackThrew)
          /\ result' = IF st.status = "returned"
                       THEN ReturnValue(st.sc, st.id) ELSE result
  /\ UNCHANGED <<pvariant, stream, throwAt, errorCalls>>
  /\ UNCHANGED <<storeVars, api, axios>>

\* reader.read() resolves with done: the loop ends and the parser returns
ReadDone ==
  /\ pstatus = "reading"
  /\ pos = Len(Content)
  /\ pstatus' = "returned"
  /\ completeCalls' = IF pvariant = "sse" THEN completeCalls + 1 ELSE completeCalls
  /\ result' = ReturnValue(streamingContent, aiMessageId)
  /\ released' = Finally("returned")
  /\ exitLog' = ExitCalls("returned", Null)
  /\ UNCHANGED <<pvariant, stream, throwAt, pos, nchunks, streamingContent,
                 aiMessageId, updates, metaCalls, errorCalls, endSeen,
                 cutInsideLine>>
  /\ UNCHANGED <<storeVars, api, axios>>

\* reader.read() rejects
ReadError ==
  /\ pstatus = "reading"
  /\ pstatus' = "threw"
  /\ errorCalls' = IF pvariant = "sse" THEN errorCalls + 1 ELSE errorCalls
  /\ released' = Finally("threw")
  /\ exitLog' = ExitCalls("threw", ReadFailed)
  /\ UNCHANGED <<pvariant, stream, throwAt, pos, nchunks, streamingContent,
                 aiMessageId, updates, metaCalls, completeCalls, result, endSeen,
                 cutInsideLine>>
  /\ UNCHANGED <<storeVars, api, axios>>

\* the parser before its first read()
ParserStart ==
  /\ pos = 0
  /\ nchunks = 0
  /\ streamingContent = <<>>
  /\ aiMessageId = ""
  /\ updates = <<>>
  /\ metaCalls = 0
  /\ completeCalls = 0
  /\ errorCalls = 0
  /\ released = 0
  /\ result = Null
  /\ endSeen = FALSE
  /\ cutInsideLine = FALSE
  /\ exitLog = <<>>

\* no parser runs (the store's specification)
ParserIdle ==
  /\ pvariant = "none"
  /\ stream = <<>>
  /\ throwAt = 0
  /\ pstatus = "idle"
  /\ ParserStart

\* no store is mounted (the parsers' specification)
StoreIdle ==
  /\ variant = "none"
  /\ threads = <<>>
  /\ messages = <<>>
  /\ currentThreadId = Null
  /\ currentThread = Null
  /\ isLoading = FALSE
  /\ error = Null
  /\ isLoadingMessages = FALSE
  /\ isLoadingThreads = FALSE
  /\ clock = 0
  /\ server = Null
  /\ calls = <<>>
  /\ ops = 0
  /\ edits = <<>>

\* ------------------------------------------------------------ API gateway
\* the statuses the backend answers GET /v1/threads/{id} with
Statuses == {200, 400, 401, 403, 404, 408, 409, 422, 429, 500, 501, 502, 503, 504}
\* response.ok
Ok(status) == status \in 200..299
NetworkFailure == 0
NoMessage == <<>>
NoRecord == [id |-> Null, title |-> Null, createdAt |-> 0, updatedAt |-> 0]
ApiThreadIds == {"t1", "t2", "t3"}

\* no request is made (the parsers' and the store's specifications)
ApiIdle ==
  api = [pc |-> "idle", threadId |-> Null, token |-> Null, status |-> NetworkFailure,
         outcome |-> "pending", message |-> NoMessage, thread |-> NoRecord]

\* apiRequest once fetch has resolved: it throws when the response is not ok
\* and hands the response back otherwise
apiRequest(status) ==
  IF ~Ok(status)
  THEN [threw |-> TRUE, message |-> <<"API Error", status>>, status |-> status]
  ELSE [threw |-> FALSE, message |-> NoMessage, status |-> status]

\* getThreadById after apiRequest has settled, up to await response.json()
getThreadById(status) ==
  LET response == apiRequest(status)
  IN IF response.threw
     THEN [outcome |-> "throws", message |-> response.message]
     ELSE IF ~Ok(response.status)
     THEN IF response.status = 404
          THEN [outcome |-> "null", message |-> NoMessage]
          ELSE [outcome |-> "throws",
                message |-> <<"Failed to fetch thread", response.status>>]
     ELSE [outcome |-> "json", message |-> NoMessage]

\* await getSession() resolves, with a session or without one
ApiGetSession ==
  /\ api.pc = "session"
  /\ \E token \in {"token", Undefined} :
       api' = [api EXCEPT !.pc = "fetch", !.token = token]
  /\ UNCHANGED <<parserVars, storeVars, axios>>

\* await fetch(...) resolves with a response
ApiFetchResolved ==
  /\ api.pc = "fetch"
  /\ \E status \in Statuses :
       LET r == getThreadById(status)
       IN api' = [api EXCEPT !.pc = IF r.outcome = "json" THEN "json" ELSE "done",
                             !.status = status,
                             !.outcome = IF r.outcome = "json" THEN "pending"
                                         ELSE r.outcome,
                             !.message = r.message]
  /\ UNCHANGED <<parserVars, storeVars, axios>>

\* await fetch(...) rejects
ApiFetchRejected ==
  /\ api.pc = "fetch"
  /\ api' = [api EXCEPT !.pc = "done", !.outcome = "throws",
                        !.message = <<"fetch failed">>]
  /\ UNCHANGED <<parserVars, storeVars, axios>>

\* await response.json() resolves and the record is converted
ApiJsonResolved ==
  /\ api.pc = "json"
  /\ api' = [api EXCEPT !.pc = "done", !.outcome = "thread",
                        !.thread = [id |-> api.threadId, title |-> "Old chat",
                                    createdAt |-> 1, updatedAt |-> 1]]
  /\ UNCHANGED <<parserVars, storeVars, axios>>

\* ---- the axios client (apiClient) and its response interceptor
MaxRefresh == 3
ErrorStatuses == {401, 403, 500, NetworkFailure}
NewToken == "new-token"
\* a request in flight: its config (the request it is and its _retry flag) and
\* where its promise stands
Request(req) == [req |-> req, retry |-> FALSE, pc |-> "sent", outcome |-> "pending"]
NoRequest ==
  [frames |-> <<>>, authToken |-> Null, accessToken |-> Null,
   refreshToken |-> Null, logouts |-> 0, refreshes |-> 0, retries |-> 0,
   log |-> <<>>, outcome |-> "pending"]

\* no request goes through apiClient (the other specifications)
AxiosIdle == axios = NoRequest

setAuthToken(a, token) == [a EXCEPT !.authToken = token]
clearAuthToken(a) == [a EXCEPT !.authToken = Null]

Top == axios.frames[Len(axios.frames)]
SetTop(frames, f) == [frames EXCEPT ![Len(frames)] = f]
Pop(frames) == SubSeq(frames, 1, Len(frames) - 1)

\* the request in flight is answered with a 2xx status
ResponseFulfilled ==
  /\ axios.frames # <<>>
  /\ Top.pc = "sent"
  /\ axios' = [axios EXCEPT
                 !.frames = SetTop(@, [Top EXCEPT !.pc = "settled",
                                                  !.outcome = "fulfilled"]),
                 !.log = Append(@, <<Top.req, 200>>)]
  /\ UNCHANGED <<parserVars, storeVars, api>>

\* the request in flight fails: the error handler up to await client.post()
\* or to its return
ResponseRejected(status) ==
  /\ axios.frames # <<>>
  /\ Top.pc = "sent"
  /\ LET originalRequest == Top
         refresh == status = 401 /\ ~originalRequest.retry
         post == refresh /\ axios.refreshToken # Null
     IN /\ post => axios.refreshes < MaxRefresh
        /\ axios' = [axios EXCEPT
             !.frames =
                IF post
                THEN Append(SetTop(@, [originalRequest EXCEPT
                                         !.retry = TRUE, !.pc = "awaitRefresh"]),
                            Request("refresh"))
                ELSE SetTop(@, [originalRequest EXCEPT
                                  !.retry = @ \/ refresh, !.pc = "settled",
                                  !.outcome = "rejected"]),
             !.refreshes = IF post THEN @ + 1 ELSE @,
             !.log = Append(@, <<originalRequest.req, status>>)]
  /\ UNCHANGED <<parserVars, storeVars, api>>

\* a promise settles: the caller's, or the one await client.post() waits for,
\* and then the handler runs on to its retry or through its catch block
AxiosSettled ==
  /\ axios.frames # <<>>
  /\ Top.pc = "settled"
  /\ IF Len(axios.frames) = 1
     THEN axios' = [axios EXCEPT !.frames = <<>>, !.outcome = Top.outcome]
     ELSE LET originalRequest == axios.frames[Len(axios.frames) - 1]
          IN IF Top.outcome = "fulfilled"
             THEN axios' = [setAuthToken(axios, NewToken) EXCEPT
                    !.accessToken = NewToken,
                    !.frames = SetTop(Pop(@), [originalRequest EXCEPT !.pc = "sent"]),
                    !.retries = IF originalRequest.req = "original"
                                THEN @ + 1 ELSE @]
             ELSE axios' = [clearAuthToken(axios) EXCEPT
                    !.accessToken = Null,
                    !.refreshToken = Null,
                    !.logouts = @ + 1,
                    !.frames = SetTop(Pop(@), [originalRequest EXCEPT
                                                 !.pc = "settled",
                                                 !.outcome = "rejected"])]
  /\ UNCHANGED <<parserVars, storeVars, api>>

\* the inline loop's update is a dispatch, which does not throw
InitParser ==
  /\ ApiIdle
  /\ AxiosIdle
  /\ pvariant \in PVariants
  /\ stream \in Streams(pvariant)
  /\ throwAt \in IF pvariant = "inline" THEN {0} ELSE {0, 1}
  /\ pstatus = "reading"
  /\ ParserStart
  /\ StoreIdle

NextParser == ReadChunk \/ ReadDone \/ ReadError

SpecParser == InitParser /\ [][NextParser]_vars

\* ------------------------------------------------------ conversation store
\* Identifiers are opaque strings. The server numbers the threads it creates.
ThreadName == <<"t1", "t2", "t3", "t4">>
TID(n) == ThreadName[n]
\* the identifiers the callers pass: the thread the server holds from the start
\* and the first one it creates
ThreadIds == {TID(1), TID(2)}
EmptyString == ""
\* a message field that is absent (undefined)
NoId == <<"undefined">>
\* a Date field that is absent (undefined); the clock starts above it
NoDate == 0
FAKE_PARENT_ID == <<"00000000-0000-0000-0000-000000000000">>
\* currentThread: null
NullThread == [id |-> Null, title |-> Null, createdAt |-> NoDate, updatedAt |-> NoDate]

\* `Chat ${new Date().toLocaleString()}`
DefaultTitle == <<"Chat 1", "Chat 2", "Chat 3", "Chat 4">>[clock]
\* the title the backend gives a thread created without one
ServerTitle == "New chat"

\* the store's state as one object
State ==
  [threads |-> threads, messages |-> messages,
   currentThreadId |-> currentThreadId, currentThread |-> currentThread,
   isLoading |-> isLoading, error |-> error,
   isLoadingMessages |-> isLoadingMessages,
   isLoadingThreads |-> isLoadingThreads]

Commit(s) ==
  /\ threads' = s.threads
  /\ messages' = s.messages
  /\ currentThreadId' = s.currentThreadId
  /\ currentThread' = s.currentThread
  /\ isLoading' = s.isLoading
  /\ error' = s.error
  /\ isLoadingMessages' = s.isLoadingMessages
  /\ isLoadingThreads' = s.isLoadingThreads

\* threads.find((t) => t.id === id): the index of the first match, 0 for none
ThreadIndex(ths, id) ==
  LET hits == {i \in 1..Len(ths) : ths[i].id = id}
  IN IF hits = {} THEN 0 ELSE CHOOSE i \in hits : \A j \in hits : i <= j

\* messages.find((m) => m.messageId === messageId)
MessageIndex(msgs, messageId) ==
  LET hits == {i \in 1..Len(msgs) : msgs[i].messageId = messageId}
  IN IF hits = {} THEN 0 ELSE CHOOSE i \in hits : \A j \in hits : i <= j

\* ---- chatReducer (context store)
SET_LOADING(s, payload) == [s EXCEPT !.isLoading = payload]
SET_LOADING_THREADS(s, payload) == [s EXCEPT !.isLoadingThreads = payload]
SET_ERROR(s, payload) == [s EXCEPT !.error = payload]
SET_LOADING_MESSAGES(s, payload) == [s EXCEPT !.isLoadingMessages = payload]

\* CREATE_THREAD with the defect of adding the new thread at the tail
CREATE_THREAD_AtTail(s, id, title) ==
  LET newThread == [id |-> id, title |-> title,
                    createdAt |-> clock, updatedAt |-> clock]
  IN [s EXCEPT !.threads = Append(s.threads, newThread),
               !.currentThreadId = id]

CREATE_THREAD(s, id, title) ==
  LET newThread == [id |-> id, title |-> title,
                    createdAt |-> clock, updatedAt |-> clock]
  IN [s EXCEPT !.threads = <<newThread>> \o s.threads,
               !.currentThreadId = id]

SET_CURRENT_THREAD(s, payload) == [s EXCEPT !.currentThreadId = payload]
SET_THREADS(s, payload) == [s EXCEPT !.threads = payload]

\* ADD_MESSAGE with the defect of putting the message at the head of the list
ADD_MESSAGE_AtHead(s, payload) ==
  [s EXCEPT !.messages = <<payload>> \o s.messages]
ADD_MESSAGE(s, payload) ==
  [s EXCEPT !.messages = Append(s.messages, payload),
            !.threads = [i \in 1..Len(s.threads) |->
                           IF s.threads[i].id = payload.threadId
                           THEN [s.threads[i] EXCEPT !.updatedAt = clock]
                           ELSE s.threads[i]]]

\* the reducer compares the messageId fields of the message and of the payload
UPDATE_MESSAGE(s, payload) ==
  [s EXCEPT !.messages = [i \in 1..Len(s.messages) |->
                            IF s.messages[i].messageId = payload.messageId
                            THEN [s.messages[i] EXCEPT
                                    !.content = payload.content,
                                    !.isStreaming = payload.isStreaming]
                            ELSE s.messages[i]]]

SET_MESSAGES(s, payload) == [s EXCEPT !.messages = payload]

DELETE_THREAD(s, payload) ==
  LET NotIt(thread) == thread.id # payload
      Other(message) == message.threadId # payload
      updatedThreads == SelectSeq(s.threads, NotIt)
  IN [s EXCEPT !.threads = updatedThreads,
               !.messages = SelectSeq(s.messages, Other),
               !.currentThreadId =
                  IF s.currentThreadId = payload
                  THEN IF Len(updatedThreads) > 0
                       THEN updatedThreads[1].id ELSE Null
                  ELSE s.currentThreadId]

\* UPDATE_THREAD_TITLE with the defect of retitling every thread
UPDATE_THREAD_TITLE_All(s, threadId, title) ==
  [s EXCEPT !.threads = [i \in 1..Len(s.threads) |->
                           [s.threads[i] EXCEPT !.title = title,
                                                !.updatedAt = clock]]]

UPDATE_THREAD_TITLE(s, threadId, title) ==
  [s EXCEPT !.threads = [i \in 1..Len(s.threads) |->
                           IF s.threads[i].id = threadId
                           THEN [s.threads[i] EXCEPT !.title = title,
                                                     !.updatedAt = clock]
                           ELSE s.threads[i]]]

CLEAR_MESSAGES(s, payload) ==
  LET Other(message) == message.threadId # payload
  IN [s EXCEPT !.messages = SelectSeq(s.messages, Other),
               !.threads = [i \in 1..Len(s.threads) |->
                              IF s.threads[i].id = payload
                              THEN [s.threads[i] EXCEPT !.updatedAt = clock]
                              ELSE s.threads[i]]]

\* ---- useChatStore (zustand store): the synchronous setters
storeCreateThread(s, newThread) ==
  [s EXCEPT !.threads = <<newThread>> \o s.threads,
            !.currentThreadId = newThread.id,
            !.currentThread = newThread,
            !.isLoading = FALSE]

\* deleteThread with the defect of keeping the deleted thread current
storeDeleteThread_KeepCurrent(s, threadId) ==
  LET NotIt(thread) == thread.id # threadId
      Other(message) == message.threadId # threadId
  IN [s EXCEPT !.threads = SelectSeq(s.threads, NotIt),
               !.messages = SelectSeq(s.messages, Other)]

storeDeleteThread(s, threadId) ==
  LET NotIt(thread) == thread.id # threadId
      Other(message) == message.threadId # threadId
      kept == SelectSeq(s.threads, NotIt)
      wasCurrent == s.currentThreadId = threadId
  IN [s EXCEPT !.threads = kept,
               !.messages = SelectSeq(s.messages, Other),
               !.currentThreadId =
                  IF wasCurrent
                  THEN IF Len(kept) > 0 THEN kept[1].id ELSE Null
                  ELSE s.currentThreadId,
               !.currentThread =
                  IF wasCurrent
                  THEN IF Len(kept) > 0 THEN kept[1] ELSE NullThread
                  ELSE s.currentThread]

\* threads.find(...): only the first thread with the identifier is changed
storeUpdateThreadTitle(s, threadId, title) ==
  LET i == ThreadIndex(s.threads, threadId)
  IN IF i = 0 THEN s
     ELSE [s EXCEPT !.threads[i].title = title,
                    !.threads[i].updatedAt = clock]

storeAddMessage(s, message) ==
  LET i == ThreadIndex(s.threads, message.threadId)
      pushed == [s EXCEPT !.messages = Append(s.messages, message)]
  IN IF i = 0 THEN pushed
     ELSE [pushed EXCEPT !.threads[i].updatedAt = clock]

storeUpdateMessage(s, messageId, content, streaming) ==
  LET i == MessageIndex(s.messages, messageId)
  IN IF i = 0 THEN s
     ELSE [s EXCEPT !.messages[i].content = content,
                    !.messages[i].isStreaming = streaming]

storeClearMessages(s, threadId) ==
  LET Other(message) == message.threadId # threadId
      i == ThreadIndex(s.threads, threadId)
      cleared == [s EXCEPT !.messages = SelectSeq(s.messages, Other)]
  IN IF i = 0 THEN cleared
     ELSE [cleared EXCEPT !.threads[i].updatedAt = clock]

\* ---- the persistence backend, as the API gateway sees it
ServerMessageId(n) == <<"srv", n>>

\* POST /v1/threads
ServerCreateThread(srv) ==
  [srv EXCEPT !.threads = Append(@, [id |-> TID(Len(srv.threads) + 1),
                                     title |-> ServerTitle,
                                     created_at |-> clock,
                                     updated_at |-> clock])]

\* POST /v1/threads/{id}/messages
ServerCreateMessage(srv, threadId, messageId, role, content, parentId) ==
  [srv EXCEPT !.messages = Append(@, [message_id |-> messageId,
                                      thread_id |-> threadId,
                                      role |-> role,
                                      content |-> content,
                                      created_at |-> clock,
                                      parent_id |-> parentId]),
              !.threads = [i \in 1..Len(srv.threads) |->
                             IF srv.threads[i].id = threadId
                             THEN [srv.threads[i] EXCEPT !.updated_at = clock]
                             ELSE srv.threads[i]]]

\* GET /v1/threads/{id}/messages
ServerMessages(srv, threadId) ==
  LET OfThread(m) == m.thread_id = threadId
  IN SelectSeq(srv.messages, OfThread)

\* fetchThreads of the context store returns the response JSON as it is: its
\* records carry created_at / updated_at, and no createdAt / updatedAt
contextFetchThreads(srv) ==
  [i \in 1..Len(srv.threads) |->
     [id |-> srv.threads[i].id, title |-> srv.threads[i].title,
      createdAt |-> NoDate, updatedAt |-> NoDate]]

\* fetchThreads of the zustand store converts each record
storeFetchThreads(srv) ==
  [i \in 1..Len(srv.threads) |->
     [id |-> srv.threads[i].id, title |-> srv.threads[i].title,
      createdAt |-> srv.threads[i].created_at,
      updatedAt |-> srv.threads[i].updated_at]]

\* fetchMessages of the context store: the thread is the one asked for
contextFetchMessages(srv, threadId) ==
  LET ms == ServerMessages(srv, threadId)
  IN [i \in 1..Len(ms) |->
        [id |-> ms[i].message_id, messageId |-> NoId, threadId |-> threadId,
         role |-> ms[i].role, content |-> ms[i].content,
         createdAt |-> ms[i].created_at, parentId |-> ms[i].parent_id,
         isStreaming |-> FALSE]]

\* fetchMessages of the zustand store: the thread is the record's thread_id
storeFetchMessages(srv, threadId) ==
  LET ms == ServerMessages(srv, threadId)
  IN [i \in 1..Len(ms) |->
        [id |-> NoId, messageId |-> ms[i].message_id,
         threadId |-> ms[i].thread_id,
         role |-> ms[i].role, content |-> ms[i].content,
         createdAt |-> ms[i].created_at, parentId |-> NoId,
         isStreaming |-> FALSE]]

\* ---- asynchronous invocations
Procs == 1..MaxCalls
IdleCall ==
  [op |-> "none", pc |-> "idle", arg |-> Null, threadId |-> Null, title |-> Null,
   closure |-> <<>>, userId |-> NoId, assistantMessageId |-> NoId,
   history |-> <<>>, streamingContent |-> <<>>, finalContent |-> <<>>,
   ndeltas |-> 0, ret |-> Null, caught |-> FALSE, err |-> Null]

Settled(c) == c.pc \in {"idle", "done", "rejected"}
\* a new invocation takes the first free slot
Free(p) == Settled(calls[p]) /\ \A q \in Procs : (q < p) => ~Settled(calls[q])
CanStart(p) == ops < MaxOps /\ Free(p)

Resolved(op, ret) == [IdleCall EXCEPT !.op = op, !.pc = "done", !.ret = ret]
Caught_Rethrow(op, ret) ==
  [IdleCall EXCEPT !.op = op, !.pc = "rejected", !.err = "API Error: 500"]
Caught(op, ret) ==
  [IdleCall EXCEPT !.op = op, !.pc = "done", !.ret = ret, !.caught = TRUE]
Rejected(op, msg) == [IdleCall EXCEPT !.op = op, !.pc = "rejected", !.err = msg]

UserContent == <<"q">>
Titles == {"T"}
NewTitles == {"X"}
\* the text fragments the chat stream carries, in order
StreamFrags == <<<<"a">>, <<SP>>, <<"b">>>>

\* the clock moves on between two events
Tick ==
  /\ variant # "none"
  /\ clock < MaxClock
  /\ clock' = clock + 1
  /\ UNCHANGED <<variant, storeState, server, calls, ops, edits>>
  /\ UNCHANGED <<parserVars, api, axios>>

\* ---- createThread
CreateThreadCall(p, title) ==
  /\ CanStart(p)
  /\ Len(server.threads) < MaxThreads
  /\ Commit(IF variant = "context" THEN SET_LOADING(State, TRUE)
            ELSE [State EXCEPT !.isLoading = TRUE])
  /\ calls' = [calls EXCEPT ![p] =
                 [IdleCall EXCEPT !.op = "createThread", !.pc = "awaitCreate",
                    !.title = IF title = Undefined THEN DefaultTitle ELSE title]]
  /\ ops' = ops + 1
  /\ UNCHANGED <<variant, clock, server, edits>>
  /\ UNCHANGED <<parserVars, api, axios>>

CreateThreadResolve(p) ==
  /\ calls[p].pc = "awaitCreate"
  /\ Len(server.threads) < MaxThreads
  /\ LET id == TID(Len(server.threads) + 1)
         newThread == [id |-> id, title |-> calls[p].title,
                       createdAt |-> clock, updatedAt |-> clock]
     IN /\ server' = ServerCreateThread(server)
        /\ Commit(IF variant = "context"
                  THEN SET_LOADING(CREATE_THREAD(State, id, calls[p].title), FALSE)
                  ELSE storeCreateThread(State, newThread))
        /\ calls' = [calls EXCEPT ![p] = Resolved("createThread", id)]
  /\ UNCHANGED <<variant, clock, ops, edits>>
  /\ UNCHANGED <<parserVars, api, axios>>

CreateThreadFail(p) ==
  /\ calls[p].pc = "awaitCreate"
  /\ LET msg == "Failed to create thread: 500"
     IN Commit(IF variant = "context"
               THEN SET_LOADING(SET_ERROR(State, msg), FALSE)
               ELSE [State EXCEPT !.error = msg, !.isLoading = FALSE])
  /\ calls' = [calls EXCEPT ![p] =
                 Caught("createThread", EmptyString)]
  /\ UNCHANGED <<variant, clock, server, ops, edits>>
  /\ UNCHANGED <<parserVars, api, axios>>

\* ---- loadThreads
LoadThreadsCall(p) ==
  /\ CanStart(p)
  /\ Commit(IF variant = "context" THEN SET_LOADING_THREADS(State, TRUE)
            ELSE [State EXCEPT !.isLoadingThreads = TRUE])
  /\ calls' = [calls EXCEPT ![p] =
                 [IdleCall EXCEPT !.op = "loadThreads", !.pc = "awaitThreads"]]
  /\ ops' = ops + 1
  /\ UNCHANGED <<variant, clock, server, edits>>
  /\ UNCHANGED <<parserVars, api, axios>>

LoadThreadsResolve(p) ==
  /\ calls[p].pc = "awaitThreads"
  /\ Commit(IF variant = "context"
            THEN SET_LOADING_THREADS(
                   SET_THREADS(State, contextFetchThreads(server)), FALSE)
            ELSE [State EXCEPT !.threads = storeFetchThreads(server),
                               !.isLoadingThreads = FALSE])
  /\ calls' = [calls EXCEPT ![p] = Resolved("loadThreads", Null)]
  /\ UNCHANGED <<variant, clock, server, ops, edits>>
  /\ UNCHANGED <<parserVars, api, axios>>

LoadThreadsFail(p) ==
  /\ calls[p].pc = "awaitThreads"
  /\ LET msg == "API Error: 500"
     IN Commit(IF variant = "context"
               THEN SET_LOADING_THREADS(SET_ERROR(State, msg), FALSE)
               ELSE [State EXCEPT !.error = msg, !.isLoadingThreads = FALSE])
  /\ calls' = [calls EXCEPT ![p] = Caught("loadThreads", Null)]
  /\ UNCHANGED <<variant, clock, server, ops, edits>>
  /\ UNCHANGED <<parserVars, api, axios>>

\* ---- switchThread / loadMessages
\* loadMessages up to its await; the context store's callback closes over the
\* messages of the render it was created in
LoadMessagesStart(s, p, op, threadId) ==
  /\ Commit(IF variant = "context" THEN SET_LOADING_MESSAGES(s, TRUE)
            ELSE [s EXCEPT !.isLoadingMessages = TRUE])
  /\ calls' = [calls EXCEPT ![p] =
                 [IdleCall EXCEPT !.op = op, !.pc = "awaitMessages",
                    !.arg = threadId, !.threadId = threadId,
                    !.closure = IF variant = "context" THEN messages ELSE <<>>]]

LoadMessagesCall(p, threadId) ==
  /\ CanStart(p)
  /\ LoadMessagesStart(State, p, "loadMessages", threadId)
  /\ ops' = ops + 1
  /\ UNCHANGED <<variant, clock, server, edits>>
  /\ UNCHANGED <<parserVars, api, axios>>

SwitchThreadCall(p, threadId) ==
  /\ CanStart(p)
  /\ IF variant = "context"
     THEN LoadMessagesStart(SET_CURRENT_THREAD(State, threadId), p,
                            "switchThread", threadId)
     ELSE IF currentThreadId = threadId \/ ThreadIndex(threads, threadId) = 0
     THEN /\ calls' = [calls EXCEPT ![p] =
                         [Resolved("switchThread", Null) EXCEPT !.arg = threadId]]
          /\ UNCHANGED storeState
     ELSE LoadMessagesStart(
            [State EXCEPT !.currentThreadId = threadId,
                          !.currentThread = threads[ThreadIndex(threads, threadId)]],
            p, "switchThread", threadId)
  /\ ops' = ops + 1
  /\ UNCHANGED <<variant, clock, server, edits>>
  /\ UNCHANGED <<parserVars, api, axios>>

\* ThreadRoot's two mount effects run back to back in one commit: loadThreads()
\* up to its await, then switchThread(threadId) up to its await or early return
ThreadRootMount(threadId) ==
  /\ variant = "zustand"
  /\ ops + 2 <= MaxOps
  /\ Len(edits) < MaxEdits
  /\ \A p \in Procs : Settled(calls[p])
  /\ LET s1 == [State EXCEPT !.isLoadingThreads = TRUE]
         stay == \/ s1.currentThreadId = threadId
                 \/ ThreadIndex(s1.threads, threadId) = 0
         s2 == IF stay THEN s1
               ELSE [s1 EXCEPT !.currentThreadId = threadId,
                               !.currentThread =
                                  s1.threads[ThreadIndex(s1.threads, threadId)],
                               !.isLoadingMessages = TRUE]
     IN /\ Commit(s2)
        /\ calls' = [calls EXCEPT
                       ![1] = [IdleCall EXCEPT !.op = "loadThreads",
                                               !.pc = "awaitThreads"],
                       ![2] = IF stay
                              THEN [Resolved("switchThread", Null)
                                      EXCEPT !.arg = threadId]
                              ELSE [IdleCall EXCEPT !.op = "switchThread",
                                      !.pc = "awaitMessages", !.arg = threadId,
                                      !.threadId = threadId]]
  /\ ops' = ops + 2
  /\ edits' = Append(edits, [op |-> "mount", threadId |-> threadId,
                              title |-> Null])
  /\ UNCHANGED <<variant, clock, server>>
  /\ UNCHANGED <<parserVars, api, axios>>

LoadMessagesResolve(p) ==
  /\ calls[p].pc = "awaitMessages"
  /\ LET threadId == calls[p].threadId
         Other(msg) == msg.threadId # threadId
         otherThreadMessages == SelectSeq(calls[p].closure, Other)
     IN Commit(IF variant = "context"
               THEN SET_LOADING_MESSAGES(
                      SET_MESSAGES(State, otherThreadMessages
                                          \o contextFetchMessages(server, threadId)),
                      FALSE)
               ELSE [State EXCEPT !.messages = storeFetchMessages(server, threadId),
                                  !.isLoadingMessages = FALSE])
  /\ calls' = [calls EXCEPT ![p] = Resolved(calls[p].op, Null)]
  /\ UNCHANGED <<variant, clock, server, ops, edits>>
  /\ UNCHANGED <<parserVars, api, axios>>

LoadMessagesFail(p) ==
  /\ calls[p].pc = "awaitMessages"
  /\ LET msg == "API Error: 500"
     IN Commit(IF variant = "context"
               THEN SET_LOADING_MESSAGES(SET_ERROR(State, msg), FALSE)
               ELSE [State EXCEPT !.error = msg, !.isLoadingMessages = FALSE])
  /\ calls' = [calls EXCEPT ![p] = Caught(calls[p].op, Null)]
  /\ UNCHANGED <<variant, clock, server, ops, edits>>
  /\ UNCHANGED <<parserVars, api, axios>>

\* ---- the synchronous actions
DeleteThread(threadId) ==
  /\ variant # "none"
  /\ Len(edits) < MaxEdits
  /\ Commit(IF variant = "context" THEN DELETE_THREAD(State, threadId)
            ELSE storeDeleteThread(State, threadId))
  /\ edits' = Append(edits, [op |-> "deleteThread", threadId |-> threadId,
                              title |-> Null])
  /\ UNCHANGED <<variant, clock, server, calls, ops>>
  /\ UNCHANGED <<parserVars, api, axios>>

UpdateThreadTitle(threadId, title) ==
  /\ variant # "none"
  /\ Len(edits) < MaxEdits
  /\ Commit(IF variant = "context" THEN UPDATE_THREAD_TITLE(State, threadId, title)
            ELSE storeUpdateThreadTitle(State, threadId, title))
  /\ edits' = Append(edits, [op |-> "updateThreadTitle", threadId |-> threadId,
                              title |-> title])
  /\ UNCHANGED <<variant, clock, server, calls, ops>>
  /\ UNCHANGED <<parserVars, api, axios>>

ClearMessages(threadId) ==
  /\ variant # "none"
  /\ Len(edits) < MaxEdits
  /\ Commit(IF variant = "context" THEN CLEAR_MESSAGES(State, threadId)
            ELSE storeClearMessages(State, threadId))
  /\ edits' = Append(edits, [op |-> "clearMessages", threadId |-> threadId,
                              title |-> Null])
  /\ UNCHANGED <<variant, clock, server, calls, ops>>
  /\ UNCHANGED <<parserVars, api, axios>>

\* ---- sendMessage
\* genMessageId: a timestamp and 64 random bits; n stands for the random part,
\* different for every identifier generated
genMessageId(n) == <<"gen", clock, n>>
TempAssistantId == <<"temp-assistant", clock>>

\* messages.map((msg) => [msg.role, msg.content])
HistoryOf(msgs) == [i \in 1..Len(msgs) |-> <<msgs[i].role, msgs[i].content>>]

\* the target with the defect of falling back to the first thread of the list
TargetThreadId_FirstThread(threadIdArg) ==
  IF threadIdArg # Undefined THEN threadIdArg
  ELSE IF currentThreadId = Null /\ Len(threads) > 0 THEN threads[1].id
  ELSE currentThreadId

\* threadId || state.currentThreadId
TargetThreadId(threadIdArg) ==
  IF threadIdArg = Undefined THEN currentThreadId ELSE threadIdArg

SendCall(p, threadIdArg) ==
  /\ CanStart(p)
  /\ LET targetThreadId == TargetThreadId(threadIdArg)
     IN calls' = [calls EXCEPT ![p] =
          IF targetThreadId = Null
          THEN [Rejected("sendMessage", "No active thread")
                  EXCEPT !.arg = threadIdArg]
          ELSE [IdleCall EXCEPT !.op = "sendMessage", !.pc = "awaitUserPersist",
                  !.arg = threadIdArg, !.threadId = targetThreadId,
                  !.closure = IF variant = "context" THEN messages ELSE <<>>]]
  /\ ops' = ops + 1
  /\ UNCHANGED <<variant, storeState, clock, server, edits>>
  /\ UNCHANGED <<parserVars, api, axios>>

\* the catch and finally blocks of sendMessage
SendCatch_Silent(s, msg) == [s EXCEPT !.isLoading = FALSE]
SendCatch(s, msg) ==
  IF variant = "context" THEN SET_LOADING(SET_ERROR(s, msg), FALSE)
  ELSE [s EXCEPT !.error = msg, !.isLoading = FALSE]

SendFail(p, pc, msg) ==
  /\ calls[p].op = "sendMessage"
  /\ calls[p].pc = pc
  /\ Commit(SendCatch(State, msg))
  /\ calls' = [calls EXCEPT ![p] = Caught("sendMessage", Null)]
  /\ UNCHANGED <<variant, clock, server, ops, edits>>
  /\ UNCHANGED <<parserVars, api, axios>>

\* createMessage resolved: the user message and the placeholder are added
SendUserPersisted(p) ==
  /\ calls[p].pc = "awaitUserPersist"
  /\ LET target == calls[p].threadId
         n == Len(server.messages) + 1
         userId == ServerMessageId(n)
         ctx == variant = "context"
         userMessage ==
           [id |-> IF ctx THEN userId ELSE NoId,
            messageId |-> IF ctx THEN NoId ELSE userId,
            role |-> "user", content |-> UserContent, createdAt |-> clock,
            threadId |-> target, parentId |-> FAKE_PARENT_ID,
            isStreaming |-> FALSE]
         assistantMessageId == IF ctx THEN TempAssistantId ELSE genMessageId(n)
         assistantMessage ==
           [id |-> IF ctx THEN assistantMessageId ELSE NoId,
            messageId |-> IF ctx THEN NoId ELSE assistantMessageId,
            role |-> "assistant", content |-> <<>>, createdAt |-> clock,
            threadId |-> target, parentId |-> userId,
            isStreaming |-> ctx]
         added == IF ctx
                  THEN ADD_MESSAGE(ADD_MESSAGE(State, userMessage), assistantMessage)
                  ELSE storeAddMessage(storeAddMessage(State, userMessage),
                                       assistantMessage)
         OfTarget(msg) == msg.threadId = target
         threadMessages ==
           SelectSeq(IF ctx THEN calls[p].closure ELSE added.messages, OfTarget)
             \o <<userMessage>>
     IN /\ server' = ServerCreateMessage(server, target, userId, "user",
                                         UserContent,
                                         IF ctx THEN FAKE_PARENT_ID ELSE NoId)
        /\ Commit(added)
        /\ calls' = [calls EXCEPT ![p].pc = "awaitStreamOpen",
                                  ![p].userId = userId,
                                  ![p].assistantMessageId = assistantMessageId,
                                  ![p].history = HistoryOf(threadMessages)]
  /\ UNCHANGED <<variant, clock, ops, edits>>
  /\ UNCHANGED <<parserVars, api, axios>>

SendUserPersistFail(p) == SendFail(p, "awaitUserPersist", "API Error: 500")

\* streamChatResponse resolved with a reader
SendStreamOpen(p) ==
  /\ calls[p].pc = "awaitStreamOpen"
  /\ calls' = [calls EXCEPT ![p].pc = "streaming"]
  /\ UNCHANGED <<variant, storeState, clock, server, ops, edits>>
  /\ UNCHANGED <<parserVars, api, axios>>

SendStreamOpenFail(p) ==
  \E msg \in {"Chat API error! status: 500", "No response body reader available"} :
    SendFail(p, "awaitStreamOpen", msg)

\* the parser's onUpdate callback, with the text accumulated so far
SendStreamDelta(p) ==
  /\ calls[p].pc = "streaming"
  /\ calls[p].ndeltas < MaxDeltas
  /\ LET content == calls[p].streamingContent \o StreamFrags[calls[p].ndeltas + 1]
         id == calls[p].assistantMessageId
     IN /\ Commit(IF variant = "context"
                  THEN UPDATE_MESSAGE(State, [id |-> id, messageId |-> NoId,
                                              content |-> content,
                                              isStreaming |-> TRUE])
                  ELSE storeUpdateMessage(State, id, content, TRUE))
        /\ calls' = [calls EXCEPT ![p].streamingContent = content,
                                  ![p].ndeltas = @ + 1]
  /\ UNCHANGED <<variant, clock, server, ops, edits>>
  /\ UNCHANGED <<parserVars, api, axios>>

\* the parser returned the trimmed text
SendStreamEnd(p) ==
  /\ calls[p].pc = "streaming"
  /\ calls' = [calls EXCEPT ![p].pc = "awaitAssistantPersist",
                            ![p].finalContent = Trim(calls[p].streamingContent)]
  /\ UNCHANGED <<variant, storeState, clock, server, ops, edits>>
  /\ UNCHANGED <<parserVars, api, axios>>

SendStreamError(p) == SendFail(p, "streaming", "network error")

\* the assistant message is persisted, then the placeholder is finalized
SendAssistantPersisted(p) ==
  /\ calls[p].pc = "awaitAssistantPersist"
  /\ LET id == calls[p].assistantMessageId
         final == calls[p].finalContent
         ctx == variant = "context"
     IN /\ server' = ServerCreateMessage(
                       server, calls[p].threadId,
                       IF ctx THEN ServerMessageId(Len(server.messages) + 1) ELSE id,
                       "assistant", final,
                       IF ctx THEN calls[p].userId ELSE NoId)
        /\ Commit(IF ctx
                  THEN SET_LOADING(
                         UPDATE_MESSAGE(State, [id |-> id, messageId |-> NoId,
                                                content |-> final,
                                                isStreaming |-> FALSE]),
                         FALSE)
                  ELSE [storeUpdateMessage(State, id, final, FALSE)
                          EXCEPT !.isLoading = FALSE])
  /\ calls' = [calls EXCEPT ![p] = Resolved("sendMessage", Null)]
  /\ UNCHANGED <<variant, clock, ops, edits>>
  /\ UNCHANGED <<parserVars, api, axios>>

SendAssistantPersistFail(p) ==
  SendFail(p, "awaitAssistantPersist", "API Error: 500")

\* ---- the store's specification
InitialServer ==
  [threads |-> <<[id |-> TID(1), title |-> "Old chat",
                  created_at |-> 1, updated_at |-> 1]>>,
   messages |-> <<[message_id |-> ServerMessageId(1), thread_id |-> TID(1),
                   role |-> "user", content |-> <<"h">>, created_at |-> 1,
                   parent_id |-> FAKE_PARENT_ID]>>]

Init ==
  /\ ApiIdle
  /\ AxiosIdle
  /\ variant \in {"context", "zustand"}
  /\ threads = <<>>
  /\ messages = <<>>
  /\ currentThreadId = Null
  /\ currentThread = NullThread
  /\ isLoading = FALSE
  /\ error = Null
  /\ isLoadingMessages = FALSE
  /\ isLoadingThreads = FALSE
  /\ clock = 1
  /\ server = InitialServer
  /\ calls = [p \in Procs |-> IdleCall]
  /\ ops = 0
  /\ edits = <<>>
  /\ ParserIdle

Next ==
  \/ Tick
  \/ \E p \in Procs :
       \/ \E title \in Titles \cup {Undefined} : CreateThreadCall(p, title)
       \/ CreateThreadResolve(p)
       \/ CreateThreadFail(p)
       \/ LoadThreadsCall(p)
       \/ LoadThreadsResolve(p)
       \/ LoadThreadsFail(p)
       \/ \E t \in ThreadIds : LoadMessagesCall(p, t)
       \/ \E t \in ThreadIds : SwitchThreadCall(p, t)
       \/ LoadMessagesResolve(p)
       \/ LoadMessagesFail(p)
       \/ \E t \in ThreadIds \cup {Undefined} : SendCall(p, t)
       \/ SendUserPersisted(p)
       \/ SendUserPersistFail(p)
       \/ SendStreamOpen(p)
       \/ SendStreamOpenFail(p)
       \/ SendStreamDelta(p)
       \/ SendStreamEnd(p)
       \/ SendStreamError(p)
       \/ SendAssistantPersisted(p)
       \/ SendAssistantPersistFail(p)
  \/ \E t \in ThreadIds : ThreadRootMount(t)
  \/ \E t \in ThreadIds : DeleteThread(t)
  \/ \E t \in ThreadIds, title \in NewTitles : UpdateThreadTitle(t, title)
  \/ \E t \in ThreadIds : ClearMessages(t)

Spec == Init /\ [][Next]_vars

\* ---- the API gateway's specification
InitApi ==
  /\ \E threadId \in ApiThreadIds :
       api = [pc |-> "session", threadId |-> threadId, token |-> Null,
              status |-> NetworkFailure, outcome |-> "pending",
              message |-> NoMessage, thread |-> NoRecord]
  /\ ParserIdle
  /\ StoreIdle
  /\ AxiosIdle

NextApi == ApiGetSession \/ ApiFetchResolved \/ ApiFetchRejected \/ ApiJsonResolved

SpecApi == InitApi /\ [][NextApi]_vars

\* ---- the axios client: one request, with or without stored tokens
InitAxios ==
  /\ \E accessToken \in {Null, "token"}, refreshToken \in {Null, "refresh"} :
       axios = [setAuthToken(NoRequest, accessToken) EXCEPT
                  !.accessToken = accessToken,
                  !.refreshToken = refreshToken,
                  !.frames = <<Request("original")>>]
  /\ ParserIdle
  /\ StoreIdle
  /\ ApiIdle

NextAxios ==
  \/ ResponseFulfilled
  \/ \E status \in ErrorStatuses : ResponseRejected(status)
  \/ AxiosSettled

SpecAxios == InitAxios /\ [][NextAxios]_vars

\* ------------------------------------------------- claims about the parsers
\* the parser's locals before the first read()
StartState == [sc |-> <<>>, id |-> "", ups |-> <<>>, meta |-> 0, completes |-> 0,
               status |-> "reading", ended |-> FALSE]

\* the whole content delivered by one read()
SingleChunk ==
  IF pvariant = "sse" THEN SseLoop(SplitLines(Content), 1, StartState)
  ELSE LineLoop(SplitLines(Content), 1, StartState)

\* the index of the stream's first end marker (e:, d: or eofs), or one past
\* the last line when it has none
FirstEnd ==
  LET ends == {i \in 1..Len(stream) : stream[i].kind = "end"}
  IN IF ends = {} THEN Len(stream) + 1
     ELSE CHOOSE i \in ends : \A j \in ends : i <= j

\* the text fragments the stream carries up to its first end marker
RECURSIVE FragsUpTo(_)
FragsUpTo(n) ==
  IF n = 0 THEN <<>>
  ELSE IF stream[n].kind = "text" THEN Append(FragsUpTo(n - 1), stream[n].frag)
  ELSE FragsUpTo(n - 1)
Fragments == FragsUpTo(FirstEnd - 1)

\* f1 + ... + fk
RunningText(k) == Concat(SubSeq(Fragments, 1, k))

\* the identifier of the last metadata line before the first end marker
MetaId ==
  IF \E i \in 1..(FirstEnd - 1) : stream[i].kind = "meta" THEN "m" ELSE ""

NoEndMarker == FirstEnd = Len(stream) + 1

\* C3: chunk-boundary invariance. However the bytes of the content are split
\* across read() results, the text the parser returns is the text it returns
\* when the content comes as one chunk. Stated for streams without an end
\* marker and callbacks that do not throw, so that nothing but the splitting
\* differs between the two runs.
C3_ChunkBoundaryInvariance ==
  (pstatus = "returned" /\ throwAt = 0 /\ NoEndMarker)
    => result.content = Trim(SingleChunk.sc)

\* C4: in the line-prefixed parser an e: or d: line ends the stream. Once such
\* a line has been reached no later fragment is appended to the accumulated
\* text and onUpdate is not called again, in the same chunk or in a later one.
C4_EndMarkerStops ==
  [][(pvariant \in {"line", "inline"} /\ endSeen)
       => (updates' = updates /\ streamingContent' = streamingContent)]_vars

\* C9: the reader is released exactly once on every exit path, whichever loop
\* consumed it, and never before the exit.
C9_ReleasedExactlyOnce ==
  /\ (pstatus \in {"returned", "threw"}) => released = 1
  /\ (pstatus = "reading") => released = 0

\* C10: onUpdate is called once per fragment, in arrival order, the k-th call
\* with f1 + ... + fk, and the parser returns f1 + ... + fn trimmed (with the
\* identifier of the metadata line in the SSE variant).
C10_UpdatesAndReturn ==
  (pstatus = "returned" /\ throwAt = 0)
    => /\ Len(updates) = Len(Fragments)
       /\ \A k \in 1..Len(updates) : updates[k] = RunningText(k)
       /\ result.content = Trim(RunningText(Len(Fragments)))
       /\ (pvariant = "sse") => result.messageId = MetaId

\* C10 when the whole content arrives in one read() and no fragment holds an
\* escaped backslash: its statement holds there
C10_WholeLines ==
  (pstatus = "returned" /\ throwAt = 0 /\ nchunks <= 1
     /\ \A i \in 1..Len(stream) : stream[i] # LnHelloBsN)
    => /\ Len(updates) = Len(Fragments)
       /\ \A k \in 1..Len(updates) : updates[k] = RunningText(k)
       /\ result.content = Trim(RunningText(Len(Fragments)))
       /\ (pvariant = "sse") => result.messageId = MetaId

\* C11: the line-prefixed parser, given the line 0:"hello\\nworld" followed by
\* an e: line, calls onUpdate once with the accumulated text hello, then a
\* last time with a newline and world appended, and returns hello, newline,
\* world, trimmed.
C11_EscapedNewlineExample ==
  (pvariant = "line" /\ stream = <<LnHelloBsN, LnEnd>> /\ nchunks = 1
     /\ pstatus = "returned" /\ throwAt = 0)
    => /\ updates = <<Hello, Hello \o <<NL>> \o World>>
       /\ result.content = Trim(Hello \o <<NL>> \o World)

WithoutBad == SelectSeq(stream, LAMBDA l : l.kind # "bad")
CleanRun == SseLoop(SplitLines(Wire(WithoutBad)), 1, StartState)

C14_ReadFailure ==
  (pvariant = "sse" /\ pstatus = "threw")
    => /\ exitLog = << <<"onError", ReadFailed>>, <<"releaseLock">>,
                       <<"throw", ReadFailed>> >>
       /\ errorCalls = 1
       /\ released = 1
       /\ completeCalls = 0
       /\ result = Null
C14_Witness ==
  /\ pvariant = "sse"
  /\ pstatus = "threw"
  /\ nchunks = 1
  /\ streamingContent = <<"a">>
  /\ exitLog[1] = <<"onError", ReadFailed>>

\* -------------------------------------------------- claims about the store
\* the asynchronous action that takes slot p in this step
Started(p) == ops' = ops + 1 /\ Free(p)
\* the synchronous action run in this step
LastEdit == edits'[Len(edits')]
Edited(op) == Len(edits') = Len(edits) + 1 /\ LastEdit.op = op

\* the messages shown for the current thread: getCurrentMessages() of the
\* context store, state.messages as the Chat component of the zustand store
\* renders it
CurrentMessages(msgs, cur) ==
  LET OfCurrent(m) == m.threadId = cur
  IN IF variant = "context"
     THEN IF cur = Null THEN <<>> ELSE SelectSeq(msgs, OfCurrent)
     ELSE msgs

\* C1: when a createThread call resolves with the thread it created, that
\* thread is the first of the thread list and is the current thread, whatever
\* was created or loaded before.
C1_CreatedThreadFirstAndCurrent ==
  [][\A p \in Procs :
       (calls[p].pc = "awaitCreate" /\ calls'[p].pc = "done" /\ ~calls'[p].caught)
         => /\ calls'[p].ret # EmptyString
            /\ Len(threads') > 0
            /\ threads'[1].id = calls'[p].ret
            /\ threads'[1].title = calls[p].title
            /\ currentThreadId' = calls'[p].ret]_vars

\* two threads created one after the other: the later one leads the list
C1_Witness ==
  /\ Len(threads) = 2
  /\ threads[1].id = TID(3)
  /\ threads[2].id = TID(2)
  /\ currentThreadId = TID(3)
  /\ \E p \in Procs : /\ calls[p].op = "createThread"
                      /\ calls[p].pc = "done"
                      /\ calls[p].ret = TID(3)

\* C2: deleteThread(t) removes t from the thread list and every message of t,
\* keeps the other threads and messages in order; when t was current the first
\* remaining thread (or null when none remains) becomes current, otherwise the
\* current thread identifier stays.
C2_DeleteThread ==
  [][Edited("deleteThread") =>
       LET t == LastEdit.threadId
           NotIt(thread) == thread.id # t
           Other(message) == message.threadId # t
       IN /\ \A i \in 1..Len(threads') : threads'[i].id # t
          /\ threads' = SelectSeq(threads, NotIt)
          /\ \A i \in 1..Len(messages') : messages'[i].threadId # t
          /\ messages' = SelectSeq(messages, Other)
          /\ currentThreadId' =
               IF currentThreadId = t
               THEN IF Len(threads') > 0 THEN threads'[1].id ELSE Null
               ELSE currentThreadId]_vars

\* the thread created last, and so current, was deleted while the loaded thread
\* remained: the loaded thread became current
C2_Witness ==
  /\ edits = <<[op |-> "deleteThread", threadId |-> TID(2), title |-> Null]>>
  /\ Len(threads) = 1
  /\ threads[1].id = TID(1)
  /\ currentThreadId = TID(1)
  /\ \E p \in Procs : calls[p].op = "createThread" /\ calls[p].ret = TID(2)
  /\ \E p \in Procs : calls[p].op = "loadThreads" /\ calls[p].pc = "done"

\* C5: at most one message of a thread is streaming. Counted over the
\* assistant messages, the in-flight replies.
C5_OneStreamingPerThread ==
  \A i, j \in 1..Len(messages) :
    (/\ messages[i].threadId = messages[j].threadId
     /\ messages[i].role = "assistant" /\ messages[i].isStreaming
     /\ messages[j].role = "assistant" /\ messages[j].isStreaming)
      => i = j

\* C6: sendMessage without a threadId argument while no thread is current
\* rejects with 'No active thread', changes nothing in the store and calls no
\* API.
C6_NoActiveThreadRejects ==
  [][\A p \in Procs :
       (/\ Started(p)
        /\ calls'[p].op = "sendMessage"
        /\ calls'[p].arg = Undefined
        /\ currentThreadId = Null)
         => /\ calls'[p].pc = "rejected"
            /\ calls'[p].err = "No active thread"
            /\ UNCHANGED storeState
            /\ server' = server]_vars

\* a send was rejected although the thread list had been loaded
C6_Witness ==
  /\ Len(threads) > 0
  /\ currentThreadId = Null
  /\ \E p \in Procs : /\ calls[p].op = "sendMessage"
                      /\ calls[p].pc = "rejected"
                      /\ calls[p].arg = Undefined

\* C7: once the promise of switchThread(id) has settled - at once, when the
\* action returns early, or when its loadMessages resolves and id still is the
\* current thread - the messages shown for the current thread all belong to id.
C7_SwitchThenView ==
  [][\A p \in Procs :
       LET returnsAtOnce ==
             Started(p) /\ calls'[p].op = "switchThread" /\ calls'[p].pc = "done"
           loadResolves ==
             /\ calls[p].op = "switchThread"
             /\ calls[p].pc = "awaitMessages"
             /\ calls'[p].pc = "done"
             /\ ~calls'[p].caught
             /\ currentThreadId' = calls[p].arg
           id == IF returnsAtOnce THEN calls'[p].arg ELSE calls[p].arg
           view == CurrentMessages(messages', currentThreadId')
       IN (returnsAtOnce \/ loadResolves)
            => \A i \in 1..Len(view) : view[i].threadId = id]_vars

\* C8: updateThreadTitle(id, X) changes the title and updatedAt of the thread
\* id and nothing else: the other threads, the order of the list, the messages,
\* the current thread identifier, the loading flags and the error stay; with no
\* thread id the state stays as it is.
C8_UpdateTitleFrame ==
  [][Edited("updateThreadTitle") =>
       LET id == LastEdit.threadId IN
       /\ Len(threads') = Len(threads)
       /\ \A i \in 1..Len(threads) :
            /\ threads'[i].id = threads[i].id
            /\ threads'[i].createdAt = threads[i].createdAt
            /\ (threads[i].id # id) => threads'[i] = threads[i]
            /\ (threads[i].id = id) => threads'[i].title = LastEdit.title
       /\ UNCHANGED <<messages, currentThreadId, isLoading, error,
                      isLoadingMessages, isLoadingThreads>>
       /\ (\A i \in 1..Len(threads) : threads[i].id # id)
            => UNCHANGED storeState]_vars

\* one of two threads was retitled
C8_Witness ==
  /\ Len(edits) = 1
  /\ edits[1].op = "updateThreadTitle"
  /\ Len(threads) = 2
  /\ \E i, j \in 1..2 : /\ threads[i].id = edits[1].threadId
                        /\ threads[i].title = edits[1].title
                        /\ threads[j].title # edits[1].title

\* C15: a thread's updatedAt never decreases: over every step of the store,
\* a thread that is in the list before and after the step has an updatedAt
\* after it that is not earlier than the one before.
C15_UpdatedAtMonotone ==
  [][\A i \in 1..Len(threads) : \A j \in 1..Len(threads') :
       (threads'[j].id = threads[i].id)
         => threads'[j].updatedAt >= threads[i].updatedAt]_vars

\* the placeholder of the sendMessage call p in a message list
PlaceholderOf(msgs, p) ==
  LET id == calls[p].assistantMessageId
      Is(m) == IF variant = "context" THEN m.id = id ELSE m.messageId = id
  IN SelectSeq(msgs, Is)

\* C16: when a sendMessage call completes without error its placeholder is
\* in the store with isStreaming false and the trimmed accumulated text as
\* content, and the placeholder's isStreaming flag goes from true to false
\* only in the step that follows the persisting of the assistant message.
C16_PlaceholderFinalized ==
  [][\A p \in Procs :
       /\ (calls[p].pc = "awaitAssistantPersist" /\ calls'[p].pc = "done"
             /\ ~calls'[p].caught)
            => /\ Len(PlaceholderOf(messages', p)) = 1
               /\ ~PlaceholderOf(messages', p)[1].isStreaming
               /\ PlaceholderOf(messages', p)[1].content
                    = Trim(calls[p].streamingContent)
       /\ (/\ calls[p].op = "sendMessage"
           /\ calls[p].assistantMessageId # NoId
           /\ \E m \in {PlaceholderOf(messages, p)[i] :
                           i \in 1..Len(PlaceholderOf(messages, p))} :
                 m.isStreaming
           /\ \E m \in {PlaceholderOf(messages', p)[i] :
                           i \in 1..Len(PlaceholderOf(messages', p))} :
                 ~m.isStreaming)
            => (calls[p].pc = "awaitAssistantPersist" /\ calls'[p].pc = "done"
             /\ ~calls'[p].caught)]_vars

\* C17: a sendMessage call that has a target thread and fails at any of its
\* steps (persisting the user message, opening the stream, reading it,
\* persisting the assistant message) sets error to a non-null message, and
\* however the call ends isLoading is false when it has settled.
C17_SendSettles ==
  [][\A p \in Procs :
       (calls[p].op = "sendMessage" /\ ~Settled(calls[p]) /\ Settled(calls'[p]))
         => /\ isLoading' = FALSE
            /\ calls'[p].caught => error' # Null]_vars
C17_Witness ==
  \E p \in Procs :
    /\ calls[p].op = "sendMessage"
    /\ calls[p].pc = "done"
    /\ calls[p].caught
    /\ \E i \in 1..Len(messages) :
         messages[i].role = "assistant" /\ messages[i].content # <<>>
    /\ error # Null
    /\ ~isLoading

\* C18: every failure of a store action is caught and recorded in error, and
\* the promise the action returns never rejects.
C18_NeverRejects ==
  \A p \in Procs : calls[p].pc # "rejected"

\* C18 as the code has it: a failure of an API call or of the stream inside
\* createThread, loadThreads, loadMessages, switchThread or sendMessage is
\* caught and recorded in error and the promise resolves; the one rejection
\* is sendMessage without a target thread, which throws 'No active thread'
\* before its try block and leaves the store as it was.
C18_OnlyNoTargetRejects ==
  [][\A p \in Procs :
       (calls'[p] # calls[p] /\ Settled(calls'[p]))
         => /\ calls'[p].caught => (calls'[p].pc = "done" /\ error' # Null)
            /\ (calls'[p].pc = "rejected")
                 => /\ calls'[p].op = "sendMessage"
                    /\ calls'[p].err = "No active thread"
                    /\ TargetThreadId(calls'[p].arg) = Null
                    /\ UNCHANGED storeState]_vars
C18_Witness ==
  \E p \in Procs :
    /\ calls[p].op = "loadMessages"
    /\ calls[p].pc = "done"
    /\ calls[p].caught
    /\ error = "API Error: 500"

\* the step in which the createThread call p learns that the API call failed
CreateFailed(p) ==
  /\ calls[p].pc = "awaitCreate"
  /\ calls'[p].pc = "done"
  /\ calls'[p].caught

\* C19: when the create-thread API call fails, createThread records an error,
\* returns the empty string, leaves the thread list and currentThreadId as
\* they were and isLoading is false after the call has settled; and isLoading
\* is true from the start of the call until it settles.
C19_CreateThreadFailure ==
  /\ [][\A p \in Procs :
          CreateFailed(p)
            => /\ error' # Null
               /\ calls'[p].ret = EmptyString
               /\ threads' = threads
               /\ currentThreadId' = currentThreadId
               /\ isLoading' = FALSE]_vars
  /\ [](\A p \in Procs : (calls[p].pc = "awaitCreate") => isLoading)

\* -------------------------------------------- claims about the API gateway
\* C20: getThreadById(id) returns null, and does not throw, when the response
\* to GET /v1/threads/{id} has status 404, and it throws for every other
\* status that is not a success.
C20_GetThreadById ==
  (api.pc = "done" /\ api.status # NetworkFailure)
    => /\ (api.status = 404) => api.outcome = "null"
       /\ (api.status # 404 /\ ~Ok(api.status)) => api.outcome = "throws"


\* ------------------------------------------- further claims about the store
\* the step in which the sendMessage call p handles a stream delta
Delta(p) ==
  /\ calls[p].pc = "streaming"
  /\ calls'[p].pc = "streaming"
  /\ calls'[p].ndeltas = calls[p].ndeltas + 1

\* m carries the identifier id
HasId(m, id) == IF variant = "context" THEN m.id = id ELSE m.messageId = id

\* m is the placeholder the sendMessage call p created
IsPlaceholder(m, p) == HasId(m, calls[p].assistantMessageId)

\* C21: a stream delta of a sendMessage call changes only the content and the
\* streaming flag of the placeholder that this call created: every other
\* message keeps its content and flag, no message is added or removed, and
\* the threads, currentThreadId, the loading flags and error are unchanged.
C21_DeltaFrame ==
  [][\A p \in Procs :
       Delta(p)
         => /\ Len(messages') = Len(messages)
            /\ \A i \in 1..Len(messages) :
                 IF IsPlaceholder(messages[i], p)
                 THEN messages'[i] = [messages[i] EXCEPT
                                        !.content = messages'[i].content,
                                        !.isStreaming = messages'[i].isStreaming]
                 ELSE messages'[i] = messages[i]
            /\ UNCHANGED <<threads, currentThreadId, currentThread, isLoading,
                           error, isLoadingMessages, isLoadingThreads>>]_vars


\* the sendMessage call p moves from one of its steps to another
Moves(p, from, to) ==
  /\ calls[p].op = "sendMessage"
  /\ calls[p].pc = from
  /\ calls'[p].pc = to

\* s is the beginning of t
IsPrefix(s, t) == Len(s) <= Len(t) /\ SubSeq(t, 1, Len(s)) = s

\* the messages the server holds for the thread of call p with a given role
Persisted(srv, p, role) ==
  LET Is(m) == m.thread_id = calls[p].threadId /\ m.role = role
  IN Len(SelectSeq(srv.messages, Is))

\* C22: the steps of one sendMessage call occur in this order: the user
\* message is persisted, then it is appended locally, then the placeholder is
\* appended, then the stream is opened, then the deltas update the
\* placeholder in arrival order, each text extending the one before, then
\* the assistant message is persisted, then the streaming flag is cleared;
\* after a failed step the call does nothing further.
C22_StepOrder ==
  [][\A p \in Procs :
       (calls'[p] # calls[p] /\ calls[p].op = "sendMessage" /\ ~Settled(calls[p]))
         => \/ /\ Moves(p, "awaitUserPersist", "awaitStreamOpen")
               /\ Persisted(server', p, "user") = Persisted(server, p, "user") + 1
               /\ Len(messages') = Len(messages) + 2
               /\ SubSeq(messages', 1, Len(messages)) = messages
               /\ messages'[Len(messages) + 1].role = "user"
               /\ messages'[Len(messages) + 2].role = "assistant"
               /\ messages'[Len(messages) + 2].content = <<>>
               /\ HasId(messages'[Len(messages) + 2], calls'[p].assistantMessageId)
            \/ /\ Moves(p, "awaitStreamOpen", "streaming")
               /\ UNCHANGED <<messages, server>>
            \/ /\ Moves(p, "streaming", "streaming")
               /\ calls'[p].ndeltas = calls[p].ndeltas + 1
               /\ IsPrefix(calls[p].streamingContent, calls'[p].streamingContent)
               /\ calls'[p].streamingContent # calls[p].streamingContent
               /\ \A i \in 1..Len(messages') :
                    IsPlaceholder(messages'[i], p)
                      => messages'[i].content = calls'[p].streamingContent
               /\ UNCHANGED server
            \/ /\ Moves(p, "streaming", "awaitAssistantPersist")
               /\ UNCHANGED <<messages, server>>
            \/ /\ Moves(p, "awaitAssistantPersist", "done")
               /\ ~calls'[p].caught
               /\ Persisted(server', p, "assistant")
                    = Persisted(server, p, "assistant") + 1
               /\ \A i \in 1..Len(messages') :
                    IsPlaceholder(messages[i], p) => ~messages'[i].isStreaming
            \/ /\ calls'[p].pc = "done"
               /\ calls'[p].caught
               /\ UNCHANGED <<messages, server>>]_vars
C22_Witness ==
  \E p \in Procs :
    /\ calls[p].op = "sendMessage"
    /\ calls[p].pc = "awaitAssistantPersist"
    /\ calls[p].ndeltas = 2
    /\ Len(messages) >= 2
    /\ messages[Len(messages)].content = StreamFrags[1] \o StreamFrags[2]
    /\ messages[Len(messages) - 1].role = "user"


\* the messages of the thread of call p in a message list
OfTargetThread(msgs, p) ==
  LET Is(m) == m.threadId = calls[p].threadId
  IN SelectSeq(msgs, Is)

\* C23: the history sendMessage passes to the chat endpoint is the messages
\* stored for the target thread when the user message has been persisted, in
\* order, followed by the new user message once; it holds no message of
\* another thread and not the empty placeholder.
C23_FullHistory ==
  [][\A p \in Procs :
       Moves(p, "awaitUserPersist", "awaitStreamOpen")
         => calls'[p].history
              = HistoryOf(OfTargetThread(messages, p)) \o << <<"user", UserContent>> >>]_vars


\* the step in which the loadMessages (or switchThread) call p gets its messages
Loaded(p) ==
  /\ calls[p].pc = "awaitMessages"
  /\ calls'[p].pc = "done"
  /\ ~calls'[p].caught

\* C24: in the context store, when loadMessages(t) settles successfully the
\* store's messages of thread t are exactly the fetched ones and every
\* message of another thread that was in the store just before the
\* SET_MESSAGES dispatch is still there, whatever ran during the fetch.
C24_LoadKeepsOtherThreads ==
  [][\A p \in Procs :
       (variant = "context" /\ Loaded(p))
         => /\ OfTargetThread(messages', p)
                 = contextFetchMessages(server, calls[p].threadId)
            /\ \A i \in 1..Len(messages) :
                 (messages[i].threadId # calls[p].threadId)
                   => \E j \in 1..Len(messages') : messages'[j] = messages[i]]_vars


\* C25: in the zustand store currentThread is null exactly when
\* currentThreadId is null, and otherwise it has the id, title and updatedAt
\* of the entry of the thread list whose id is currentThreadId.
C25_CurrentThreadInSync ==
  (variant = "zustand")
    => /\ (currentThread = NullThread) <=> (currentThreadId = Null)
       /\ (currentThreadId # Null)
            => \E i \in 1..Len(threads) :
                 /\ threads[i].id = currentThreadId
                 /\ currentThread.id = threads[i].id
                 /\ currentThread.title = threads[i].title
                 /\ currentThread.updatedAt = threads[i].updatedAt


\* a loadMessages, switchThread or sendMessage call is waiting for something
LoadOrSendInFlight ==
  \E p \in Procs :
    calls[p].pc \in {"awaitMessages", "awaitUserPersist", "awaitStreamOpen",
                     "streaming", "awaitAssistantPersist"}

\* C26: in the zustand store, once no load or send is in flight every message
\* of the list belongs to the thread that currentThreadId names; in
\* particular after two overlapping switchThread calls, for A and then for
\* B, have settled, the list holds the messages of B.
C26_MessagesOfCurrentThread ==
  (variant = "zustand" /\ ~LoadOrSendInFlight)
    => \A i \in 1..Len(messages) : messages[i].threadId = currentThreadId


\* ---- ThreadRoot
Mounted(threadId) ==
  /\ variant = "zustand"
  /\ Len(edits) = 1
  /\ edits[1].op = "mount"
  /\ edits[1].threadId = threadId
\* the switchThread call of a step that began with threadId absent from the
\* local list
SwitchOfAbsent(p, threadId) ==
  /\ variant = "zustand"
  /\ ThreadIndex(threads, threadId) = 0
  /\ calls'[p] # calls[p]
  /\ calls'[p].op = "switchThread"
  /\ calls'[p].arg = threadId
  /\ calls[p].pc # "awaitMessages"

\* C27: once the loadThreads() and switchThread(id) calls started by a ThreadRoot
\* mount have both settled, and loadThreads returned a thread with that id,
\* currentThreadId is id and the list holds that thread's messages (unless the
\* message load failed); and a switchThread for an id absent from the local
\* list changes nothing in the store and starts no load
C27_MountSelectsThread ==
  /\ [](\A t \in ThreadIds :
          (/\ Mounted(t)
           /\ \A p \in Procs : Settled(calls[p])
           /\ calls[1].op = "loadThreads" /\ ~calls[1].caught
           /\ ThreadIndex(threads, t) # 0)
          => /\ currentThreadId = t
             /\ calls[2].caught \/ messages = storeFetchMessages(server, t))
  /\ [][\A p \in Procs : \A t \in ThreadIds :
          SwitchOfAbsent(p, t)
          => /\ UNCHANGED <<threads, messages, currentThreadId, currentThread,
                            isLoadingMessages, error>>
             /\ calls'[p].pc = "done"]_vars


Deleted(threadId) ==
  \E i \in 1..Len(edits) :
    edits[i].op = "deleteThread" /\ edits[i].threadId = threadId
InitialThreadIds ==
  {InitialServer.threads[i].id : i \in 1..Len(InitialServer.threads)}

NoneOf(msgs, threadId) == \A i \in 1..Len(msgs) : msgs[i].threadId # threadId
SendStep(p) == calls[p].op = "sendMessage" /\ calls'[p] # calls[p]

\* C28: once deleteThread(t) has run for a thread t that existed before and the
\* store holds no message with threadId t, no later step of a sendMessage for t
\* that was in flight at the deletion puts a message with threadId t back
C28_DeletedThreadStaysGone ==
  [][\A t \in InitialThreadIds : \A p \in Procs :
       (/\ Deleted(t)
        /\ NoneOf(messages, t)
        /\ SendStep(p)
        /\ calls[p].threadId = t)
       => NoneOf(messages', t)]_vars

IdOf(m) == IF variant = "context" THEN m.id ELSE m.messageId

\* C29: the identifiers of the messages in the store are pairwise distinct,
\* the temporary identifiers of assistant placeholders included
C29_MessageIdsDistinct ==
  \A i \in 1..Len(messages) : \A j \in 1..Len(messages) :
    (i # j) => IdOf(messages[i]) # IdOf(messages[j])


\* ------------------------------------------- claims about the axios client
Answered(req, status) ==
  \E i \in 1..Len(axios.log) : axios.log[i] = <<req, status>>
AxiosDone == axios.frames = <<>> /\ axios.outcome # "pending"

\* C30: a request through apiClient sets off at most one POST /auth/refresh and
\* is retried at most once; and when /auth/refresh was answered with 401 the
\* request's promise ends rejected, with the tokens cleared and auth:logout
\* dispatched
C30_OneRefreshOneRetry ==
  /\ axios.refreshes <= 1
  /\ axios.retries <= 1
  /\ (AxiosDone /\ Answered("refresh", 401))
       => /\ axios.outcome = "rejected"
          /\ axios.authToken = Null
          /\ axios.accessToken = Null
          /\ axios.refreshToken = Null
          /\ axios.logouts >= 1

====
